---- MODULE Spec2Model ----
(***************************************************************************)
(* Model of src/detect_and_mitigate.py: the attack-aware banlist pipeline. *)
(* One run of main() reads the node table, classifies the attack type,     *)
(* computes the limits, loads the preserved category files, assembles the  *)
(* three banlists and writes them.  The three banlist files are the only   *)
(* state that survives a run.                                              *)
(***************************************************************************)
EXTENDS Integers, Sequences, FiniteSets, TLC

VARIABLES
    files,                  \* path -> content on disk (Absent or a File of lines)
    files0,                 \* content of the files when the current run started
    pc,                     \* position of the current run of main()
    runs,                   \* number of runs that have exited
    success,                \* value returned by main() (exit code 0 iff TRUE)
    nodes,                  \* the node table loaded from INPUT
    attack_type,
    known_blackholes,       \* node records labelled BLACKHOLE, in scan order
    known_wormholes,
    limits,                 \* <<MAX_TOTAL_BLACKHOLE_BAN, MAX_TOTAL_WORMHOLE_BAN>>
    preserved_blackholes,
    preserved_wormholes,
    additional_blackholes,
    additional_wormholes,
    blackhole_banlist,
    wormhole_banlist,
    main_banlist,
    rollback,               \* TRUE iff the branch at line 259 was taken
    written                 \* the paths this run has written

vars == <<files, files0, pc, runs, success, nodes, attack_type, known_blackholes,
          known_wormholes, limits, preserved_blackholes, preserved_wormholes,
          additional_blackholes, additional_wormholes, blackhole_banlist,
          wormhole_banlist, main_banlist, rollback, written>>

-----------------------------------------------------------------------------
(* Bounds *)

\* number of runs of main() in one behaviour
MaxRuns == 2

\* largest block of BLACKHOLE-labelled nodes in an input table
MaxLabelled == 5

\* largest block of ordinary nodes in an input table
MaxFill == 14

-----------------------------------------------------------------------------
(* Generic helpers *)

Range(s) == {s[i] : i \in 1..Len(s)}

Max(a, b) == IF a >= b THEN a ELSE b

Min(a, b) == IF a <= b THEN a ELSE b

\* sorted(set(...)): the ascending, duplicate-free sequence of a set of integers
RECURSIVE SortedSeq(_)
SortedSeq(S) ==
    IF S = {} THEN <<>>
    ELSE LET m == CHOOSE x \in S : \A y \in S : x <= y
         IN  <<m>> \o SortedSeq(S \ {m})

sorted_set(s) == SortedSeq(Range(s))

\* list[:n]
Prefix(s, n) == SubSeq(s, 1, Min(n, Len(s)))

node_ids(s) == [i \in 1..Len(s) |-> s[i].node_id]

-----------------------------------------------------------------------------
(* Banlist files: one decimal node ID per line *)

BANLIST == "banlist.txt"
BLACKHOLE_BANLIST == "banlist_blackhole.txt"
WORMHOLE_BANLIST == "banlist_wormhole.txt"

Paths == {BANLIST, BLACKHOLE_BANLIST, WORMHOLE_BANLIST}

\* a path that does not exist, and a file holding lines
Absent == [exists |-> FALSE, lines |-> <<>>]

File(lines) == [exists |-> TRUE, lines |-> lines]

Digits == <<"0", "1", "2", "3", "4", "5", "6", "7", "8", "9">>

IsDigit(c) == \E d \in 1..10 : Digits[d] = c

DigitVal(c) == (CHOOSE d \in 1..10 : Digits[d] = c) - 1

\* f"{node_id}": the decimal digits of a non-negative integer
RECURSIVE Str(_)
Str(n) ==
    IF n < 10 THEN <<Digits[n + 1]>>
    ELSE Str(n \div 10) \o <<Digits[(n % 10) + 1]>>

\* line.strip(): leading and trailing blanks removed
RECURSIVE strip(_)
strip(line) ==
    IF line = <<>> THEN line
    ELSE IF Head(line) = " " THEN strip(Tail(line))
    ELSE IF line[Len(line)] = " " THEN strip(SubSeq(line, 1, Len(line) - 1))
    ELSE line

\* int(s) succeeds: a non-empty string of decimal digits
IsInt(s) == s # <<>> /\ \A i \in 1..Len(s) : IsDigit(s[i])

\* int(s) for such a string
RECURSIVE int(_)
int(s) ==
    IF s = <<>> THEN 0
    ELSE 10 * int(SubSeq(s, 1, Len(s) - 1)) + DigitVal(s[Len(s)])

\* for node_id in banlist: f.write(f"{node_id}\n")
write_lines(banlist) == [i \in 1..Len(banlist) |-> Str(banlist[i])]

\* [int(line.strip()) for line in f if line.strip()], or the ValueError it raises
NonBlank(content) == SelectSeq(content, LAMBDA line : strip(line) # <<>>)

ParseFails(content) == \E i \in 1..Len(content) :
    strip(content[i]) # <<>> /\ ~IsInt(strip(content[i]))

read_ids(content) == LET kept == NonBlank(content)
                     IN  [i \in 1..Len(kept) |-> int(strip(kept[i]))]

-----------------------------------------------------------------------------
(* Node records and the pure functions of the pipeline *)

NodeTypes == {"NORMAL", "BLACKHOLE", "WORMHOLE", "BANNED"}

AttackTypes == {"baseline", "blackhole", "wormhole", "mixed"}

Node(id, tx, rx, fwd, type) ==
    [node_id |-> id, txPackets |-> tx, rxPackets |-> rx, fwdPackets |-> fwd,
     node_type |-> type]

\* [n for n in nodes if n['node_type'] == type]
labelled(ns, type) == SelectSeq(ns, LAMBDA n : n.node_type = type)

get_attack_type_from_stats(ns) ==
    LET blackhole_count == Len(labelled(ns, "BLACKHOLE"))
        wormhole_count == Len(labelled(ns, "WORMHOLE"))
    IN  IF blackhole_count > 0 /\ wormhole_count = 0 THEN "blackhole"
        ELSE IF wormhole_count > 0 /\ blackhole_count = 0 THEN "wormhole"
        ELSE IF blackhole_count = 0 /\ wormhole_count = 0 THEN "baseline"
        ELSE "mixed"

\* the limits with room for two heuristic additions per category
calculate_dynamic_limits_plus_two(ns, kb, kw, at) ==
    LET max_total_ban == Max(6, Len(ns) \div 4)
    IN  IF at = "blackhole"
        THEN <<Min(max_total_ban, Len(kb) + 2), Len(kw)>>
        ELSE IF at = "wormhole"
        THEN <<Len(kb), Min(max_total_ban, Len(kw) + 2)>>
        ELSE <<Min(max_total_ban, Len(kb) + 2), Min(max_total_ban, Len(kw) + 2)>>

\* returns <<max_blackhole_ban, max_wormhole_ban>>; int(total_nodes * 0.25) is
\* total_nodes \div 4 for a non-negative count
calculate_dynamic_limits(ns, kb, kw, at) ==
    LET total_nodes == Len(ns)
        max_total_ban == Max(6, total_nodes \div 4)
        known_blackhole_count == Len(kb)
        known_wormhole_count == Len(kw)
    IN  IF at = "blackhole"
        THEN <<Min(max_total_ban, known_blackhole_count + 1), known_wormhole_count>>
        ELSE IF at = "wormhole"
        THEN <<known_blackhole_count, Min(max_total_ban, known_wormhole_count + 1)>>
        ELSE <<Min(max_total_ban, known_blackhole_count + 1),
               Min(max_total_ban, known_wormhole_count + 1)>>

\* The median is an integer or an integer plus a half: it is carried doubled.
\* k-th smallest (1-based) of a non-empty sequence of integers
kth(s, k) == CHOOSE v \in Range(s) :
    /\ Cardinality({i \in 1..Len(s) : s[i] < v}) < k
    /\ Cardinality({i \in 1..Len(s) : s[i] <= v}) >= k

\* 2 * statistics.median(s)
median2(s) ==
    LET n == Len(s)
    IN  IF n % 2 = 1 THEN 2 * kth(s, (n + 1) \div 2)
        ELSE kth(s, n \div 2) + kth(s, n \div 2 + 1)

\* the four indicators of lines 75-78, with median_rx = median_rx2 / 2:
\* rx > max(40, median_rx * 2.5) and tx < rx * 0.25 in exact arithmetic
blackhole_test(node, median_rx2) ==
    LET rx == node.rxPackets
        fwd == node.fwdPackets
        tx == node.txPackets
        zero_forwarding == (fwd = 0)
        high_traffic == (rx > 40 /\ 4 * rx > 5 * median_rx2)
        not_source_node == (4 * tx < rx)
        meaningful_activity == (rx > 30)
    IN  zero_forwarding /\ high_traffic /\ not_source_node /\ meaningful_activity

\* the blackhole detector without its attack-type gate
detect_blackholes_ungated(ns, median_rx2, available_nodes, at) ==
    node_ids(SelectSeq(ns, LAMBDA node :
        node.node_id \in Range(available_nodes) /\ blackhole_test(node, median_rx2)))

detect_blackholes(ns, median_rx2, available_nodes, at) ==
    IF at # "blackhole" THEN <<>>
    ELSE node_ids(SelectSeq(ns, LAMBDA node :
            node.node_id \in Range(available_nodes) /\ blackhole_test(node, median_rx2)))

\* the four indicators of lines 102-108; fwd_ratio = fwd / (rx + 0.001), so
\* 0.05 < fwd_ratio < 0.25 is 1000*rx + 1 < 20000*fwd and 4000*fwd < 1000*rx + 1
wormhole_test(node, median_rx2) ==
    LET rx == node.rxPackets
        fwd == node.fwdPackets
        tx == node.txPackets
        extreme_traffic == (2 * rx > 5 * median_rx2)
        suspicious_pattern == (1000 * rx + 1 < 20000 * fwd /\ 4000 * fwd < 1000 * rx + 1)
        not_primary_source == (20 * tx < 3 * rx)
        network_presence == (rx > 50)
    IN  extreme_traffic /\ suspicious_pattern /\ not_primary_source /\ network_presence

detect_wormholes(ns, median_rx2, available_nodes, at) ==
    IF at # "wormhole" THEN <<>>
    ELSE node_ids(SelectSeq(ns, LAMBDA node :
            node.node_id \in Range(available_nodes) /\ wormhole_test(node, median_rx2)))

\* the lines of a file up to its first line that does not parse
RECURSIVE parsed_before_failure(_)
parsed_before_failure(content) ==
    IF content = <<>> \/ (strip(Head(content)) # <<>> /\ ~IsInt(strip(Head(content))))
    THEN <<>>
    ELSE <<Head(content)>> \o parsed_before_failure(Tail(content))

\* a preserver that keeps the IDs read before an unparsable line
preserve_one_partial(at, category, content) ==
    IF at # category /\ content.exists
    THEN read_ids(parsed_before_failure(content.lines))
    ELSE <<>>

\* one category of preserve_existing_banlists: the IDs of the category file
\* when the run is not about that category, the file exists and every
\* non-blank line parses; [] otherwise
preserve_one(at, category, content) ==
    IF at # category /\ content.exists /\ ~ParseFails(content.lines)
    THEN read_ids(content.lines)
    ELSE <<>>

\* returns <<preserved_blackholes, preserved_wormholes>>
preserve_existing_banlists(at, fs) ==
    <<preserve_one(at, "blackhole", fs[BLACKHOLE_BANLIST]),
      preserve_one(at, "wormhole", fs[WORMHOLE_BANLIST])>>

\* active_nodes of line 207
active_nodes(ns) == SelectSeq(ns, LAMBDA n : n.rxPackets > 15 \/ n.txPackets > 15)

\* [n['rxPackets'] for n in active_nodes]
rx_packets(s) == [i \in 1..Len(s) |-> s[i].rxPackets]

\* the guard with the floor at 15 active nodes instead of more than 15
enough_active_from_15(ns) == Len(active_nodes(ns)) >= 15

\* the guard of line 209
enough_active(ns) == Len(active_nodes(ns)) > 15

\* available_for_detection of lines 213-214
available_for_detection(ns) ==
    node_ids(SelectSeq(ns, LAMBDA n : n.node_type \notin {"BLACKHOLE", "WORMHOLE", "BANNED"}))

\* the detector results of lines 209-231 as <<additional_blackholes, additional_wormholes>>
additional_detection(ns, at) ==
    IF enough_active(ns)
    THEN LET median_rx2 == median2(rx_packets(active_nodes(ns)))
         IN  <<detect_blackholes(ns, median_rx2, available_for_detection(ns), at),
               detect_wormholes(ns, median_rx2, available_for_detection(ns), at)>>
    ELSE <<<<>>, <<>>>>

\* lines 192-200: the preserved IDs and the known IDs, deduplicated and sorted
initial_banlist(preserved, known) == sorted_set(preserved \o node_ids(known))

\* a limit applied to the sorted list: the lowest IDs are kept
apply_limit_sorted_first(banlist, limit) == Prefix(sorted_set(banlist), limit)

\* lines 237-239 and 246: cut to the limit, then deduplicate and sort
apply_limit(banlist, limit) ==
    sorted_set(IF Len(banlist) > limit THEN Prefix(banlist, limit) ELSE banlist)

\* line 248
combine(bl, wl) == sorted_set(bl \o wl)

\* the safety check with a ceiling of 0.5 instead of 0.25
ratio_too_high_half(mainlist, ns) == 2 * Len(mainlist) > Len(ns)

\* lines 253-259: ban_ratio > MAX_SAFE_BAN_RATIO, i.e. len(main) / len(nodes) > 0.25
ratio_too_high(mainlist, ns) == 4 * Len(mainlist) > Len(ns)

\* the rollback with the preserved wormhole IDs left out of the combined list
rollback_lists_no_preserved(kb, kw, pb, pw) ==
    <<node_ids(kb) \o pb,
      node_ids(kw) \o pw,
      sorted_set(node_ids(kb \o kw) \o pb)>>

\* lines 262-267: <<blackhole_banlist, wormhole_banlist, main_banlist>> of the rollback
rollback_lists(kb, kw, pb, pw) ==
    <<node_ids(kb) \o pb,
      node_ids(kw) \o pw,
      sorted_set(node_ids(kb \o kw) \o pb \o pw)>>

-----------------------------------------------------------------------------
(* The inputs: node tables and pre-existing file contents *)

\* traffic profiles <<tx, rx, fwd>> and labels of the nodes of an input table
Kinds == [N |-> <<20, 20, 18, "NORMAL">>,       \* ordinary active node
          S |-> <<10, 120, 0, "NORMAL">>,       \* unlabelled sink: passes the blackhole test
          T |-> <<5, 120, 12, "NORMAL">>,       \* unlabelled tunnel: passes the wormhole test
          B |-> <<10, 120, 0, "BLACKHOLE">>,
          W |-> <<5, 120, 12, "WORMHOLE">>,
          X |-> <<10, 120, 0, "BANNED">>,
          Q |-> <<15, 15, 0, "NORMAL">>]        \* ordinary node just below the activity floor

\* the kinds of the two nodes with the lowest IDs
HotPairs == {<<"S", "S">>, <<"S", "T">>, <<"B", "S">>, <<"B", "B">>, <<"B", "W">>,
             <<"W", "T">>, <<"X", "S">>}

\* <<number of BLACKHOLE-labelled rows, number of ordinary rows>> after the hot rows
Shapes == {<<0, 2>>, <<0, MaxFill - 1>>, <<0, MaxFill>>, <<2, MaxFill - 1>>,
           <<MaxLabelled, MaxFill - 1>>}

\* the table of the hot nodes (IDs 1, 2), then lab BLACKHOLE nodes, then fill
\* ordinary nodes, its rows in ascending order of node ID or, when desc, in
\* descending order
MakeTable(hot, lab, fill, desc) ==
    LET kinds == hot \o [i \in 1..lab |-> "B"] \o [i \in 1..fill |-> "N"]
        n == Len(kinds)
    IN  [i \in 1..n |->
            LET id == IF desc THEN n + 1 - i ELSE i
                k == Kinds[kinds[id]]
            IN  Node(id, k[1], k[2], k[3], k[4])]

\* a table of more than 15 rows of which one is not active: a labelled node,
\* an unlabelled node that passes the matching test, MaxFill - 1 ordinary
\* nodes and one node with rx = tx = 15
QuietTables ==
    {[i \in 1..(MaxFill + 2) |->
        LET id == IF desc THEN MaxFill + 3 - i ELSE i
            k == Kinds[(hot \o [j \in 1..(MaxFill - 1) |-> "N"] \o <<"Q">>)[id]]
        IN  Node(id, k[1], k[2], k[3], k[4])] :
        hot \in {<<"B", "S">>, <<"W", "T">>}, desc \in BOOLEAN}

Tables == {<<>>} \cup QuietTables \cup
    {MakeTable(hot, shape[1], shape[2], desc) :
        hot \in HotPairs, shape \in Shapes, desc \in BOOLEAN}

\* contents a category file may have before the first run: missing, a written
\* list, an unsorted list with a repeated ID and a padded line, a corrupt file
InitCategoryFiles ==
    {Absent,
     File(<<<<"1">>, <<"2">>>>),
     File(<<<<"2">>, <<" ", "1">>, <<"2">>>>),
     File(<<<<"1">>, <<"x">>>>)}

InitCombinedFiles == {Absent, File(<<<<"7">>>>)}

-----------------------------------------------------------------------------
(* The run of main() *)

\* the positions at which main() has returned or raised
Exited == {"no_input", "bad_row", "crashed", "done", "write_failed"}

Locals == <<nodes, attack_type, known_blackholes, known_wormholes, limits,
            preserved_blackholes, preserved_wormholes, additional_blackholes,
            additional_wormholes, blackhole_banlist, wormhole_banlist, main_banlist,
            rollback>>

Init ==
    /\ files \in {f \in [Paths -> InitCategoryFiles \cup InitCombinedFiles] :
                    /\ f[BANLIST] \in InitCombinedFiles
                    /\ f[BLACKHOLE_BANLIST] \in InitCategoryFiles
                    /\ f[WORMHOLE_BANLIST] \in InitCategoryFiles}
    /\ files0 = files
    /\ pc = "idle"
    /\ runs = 0
    /\ success = FALSE
    /\ nodes = <<>>
    /\ attack_type = "none"
    /\ known_blackholes = <<>>
    /\ known_wormholes = <<>>
    /\ limits = <<0, 0>>
    /\ preserved_blackholes = <<>>
    /\ preserved_wormholes = <<>>
    /\ additional_blackholes = <<>>
    /\ additional_wormholes = <<>>
    /\ blackhole_banlist = <<>>
    /\ wormhole_banlist = <<>>
    /\ main_banlist = <<>>
    /\ rollback = FALSE
    /\ written = {}

\* lines 148-150: INPUT does not exist
InputMissing ==
    /\ pc = "idle" /\ runs < MaxRuns
    /\ pc' = "no_input"
    /\ success' = FALSE
    /\ files0' = files
    /\ written' = {}
    /\ UNCHANGED <<files, runs>>
    /\ UNCHANGED Locals

\* a loader that opens the combined file for writing before it parses the rows
RowParseErrorTruncates ==
    /\ pc = "idle" /\ runs < MaxRuns
    /\ pc' = "bad_row"
    /\ success' = FALSE
    /\ files0' = files
    /\ written' = {}
    /\ files' = [files EXCEPT ![BANLIST] = File(<<>>)]
    /\ UNCHANGED runs
    /\ UNCHANGED Locals

\* lines 154-168: a row of INPUT raises in int() or lacks a column
RowParseError ==
    /\ pc = "idle" /\ runs < MaxRuns
    /\ pc' = "bad_row"
    /\ success' = FALSE
    /\ files0' = files
    /\ written' = {}
    /\ UNCHANGED <<files, runs>>
    /\ UNCHANGED Locals

\* lines 154-165: every row of INPUT parses
Load ==
    /\ pc = "idle" /\ runs < MaxRuns
    /\ \E table \in Tables : nodes' = table
    /\ pc' = "loaded"
    /\ files0' = files
    /\ written' = {}
    /\ UNCHANGED <<files, runs, success, attack_type, known_blackholes, known_wormholes,
                   limits, preserved_blackholes, preserved_wormholes,
                   additional_blackholes, additional_wormholes, blackhole_banlist,
                   wormhole_banlist, main_banlist, rollback>>

\* lines 171-267 on a table with at least one row
Assemble ==
    /\ pc = "loaded" /\ Len(nodes) > 0
    /\ attack_type' = get_attack_type_from_stats(nodes)
    /\ known_blackholes' = labelled(nodes, "BLACKHOLE")
    /\ known_wormholes' = labelled(nodes, "WORMHOLE")
    /\ limits' = calculate_dynamic_limits(nodes, known_blackholes', known_wormholes',
                                          attack_type')
    /\ \E pres \in {preserve_existing_banlists(attack_type', files)} :
          /\ preserved_blackholes' = pres[1]
          /\ preserved_wormholes' = pres[2]
    /\ \E add \in {additional_detection(nodes, attack_type')} :
          /\ additional_blackholes' = add[1]
          /\ additional_wormholes' = add[2]
    /\ \E bl \in {apply_limit(initial_banlist(preserved_blackholes', known_blackholes')
                                \o additional_blackholes', limits'[1])},
          wl \in {apply_limit(initial_banlist(preserved_wormholes', known_wormholes')
                                \o additional_wormholes', limits'[2])} :
          \E ml \in {combine(bl, wl)} :
             /\ rollback' = ratio_too_high(ml, nodes)
             /\ \E final \in {IF rollback'
                                THEN rollback_lists(known_blackholes', known_wormholes',
                                                    preserved_blackholes',
                                                    preserved_wormholes')
                                ELSE <<bl, wl, ml>>} :
                   /\ blackhole_banlist' = final[1]
                   /\ wormhole_banlist' = final[2]
                   /\ main_banlist' = final[3]
    /\ pc' = "assembled"
    /\ UNCHANGED <<files, files0, runs, success, nodes, written>>

\* line 253 on a table without rows: len(main_banlist) / 0 raises outside any
\* try block, the interpreter exits non-zero
AssembleCrash ==
    /\ pc = "loaded" /\ Len(nodes) = 0
    /\ pc' = "crashed"
    /\ success' = FALSE
    /\ UNCHANGED <<files, files0, runs, written>>
    /\ UNCHANGED Locals

\* a writer that rewrites both category files in every run
writes_category_always(at, category, banlist) == TRUE

\* lines 274 and 279: whether a category file is opened for writing
writes_category(at, category, banlist) == at = category \/ banlist # <<>>

\* lines 272-286: the files after the writes
written_files(fs, at, bl, wl, ml) ==
    [fs EXCEPT
        ![BLACKHOLE_BANLIST] = IF writes_category(at, "blackhole", bl)
                               THEN File(write_lines(bl)) ELSE @,
        ![WORMHOLE_BANLIST] = IF writes_category(at, "wormhole", wl)
                              THEN File(write_lines(wl)) ELSE @,
        ![BANLIST] = File(write_lines(ml))]

\* lines 272-305: all writes succeed, main() returns True
Write ==
    /\ pc = "assembled"
    /\ files' = written_files(files, attack_type, blackhole_banlist, wormhole_banlist,
                              main_banlist)
    /\ written' = {BANLIST}
            \cup (IF writes_category(attack_type, "blackhole", blackhole_banlist)
                  THEN {BLACKHOLE_BANLIST} ELSE {})
            \cup (IF writes_category(attack_type, "wormhole", wormhole_banlist)
                  THEN {WORMHOLE_BANLIST} ELSE {})
    /\ success' = TRUE
    /\ pc' = "done"
    /\ UNCHANGED <<files0, runs>>
    /\ UNCHANGED Locals

\* lines 293-295: open() of the combined file raises after the category files
\* were written, main() returns False
WriteFailure ==
    /\ pc = "assembled"
    /\ files' = [written_files(files, attack_type, blackhole_banlist, wormhole_banlist,
                               main_banlist) EXCEPT ![BANLIST] = files[BANLIST]]
    /\ written' = (IF writes_category(attack_type, "blackhole", blackhole_banlist)
                   THEN {BLACKHOLE_BANLIST} ELSE {})
            \cup (IF writes_category(attack_type, "wormhole", wormhole_banlist)
                  THEN {WORMHOLE_BANLIST} ELSE {})
    /\ success' = FALSE
    /\ pc' = "write_failed"
    /\ UNCHANGED <<files0, runs>>
    /\ UNCHANGED Locals

\* lines 307-309: the process exits and its memory is gone
Exit ==
    /\ pc \in Exited
    /\ pc' = "idle"
    /\ runs' = runs + 1
    /\ success' = FALSE
    /\ nodes' = <<>>
    /\ attack_type' = "none"
    /\ known_blackholes' = <<>>
    /\ known_wormholes' = <<>>
    /\ limits' = <<0, 0>>
    /\ preserved_blackholes' = <<>>
    /\ preserved_wormholes' = <<>>
    /\ additional_blackholes' = <<>>
    /\ additional_wormholes' = <<>>
    /\ blackhole_banlist' = <<>>
    /\ wormhole_banlist' = <<>>
    /\ main_banlist' = <<>>
    /\ rollback' = FALSE
    /\ written' = {}
    /\ files0' = files
    /\ UNCHANGED files

Next ==
    \/ InputMissing
    \/ RowParseError
    \/ Load
    \/ Assemble
    \/ AssembleCrash
    \/ Write
    \/ WriteFailure
    \/ Exit

Spec == Init /\ [][Next]_vars

-----------------------------------------------------------------------------
(* main() repeated on an INPUT file that stays on disk unchanged *)

\* lines 153-168, first invocation: the table INPUT holds
LoadFirst ==
    /\ runs = 0
    /\ Load

\* lines 153-168, a later invocation: INPUT still holds the same rows
LoadSame ==
    /\ pc = "idle" /\ runs > 0 /\ runs < MaxRuns
    /\ nodes' = nodes
    /\ pc' = "loaded"
    /\ files0' = files
    /\ written' = {}
    /\ UNCHANGED <<files, runs, success, attack_type, known_blackholes, known_wormholes,
                   limits, preserved_blackholes, preserved_wormholes,
                   additional_blackholes, additional_wormholes, blackhole_banlist,
                   wormhole_banlist, main_banlist, rollback>>

\* lines 307-309: the process ends; its locals are gone, INPUT and the banlist
\* files stay
ExitKeepingInput ==
    /\ pc \in Exited
    /\ pc' = "idle"
    /\ runs' = runs + 1
    /\ success' = FALSE
    /\ attack_type' = "none"
    /\ known_blackholes' = <<>>
    /\ known_wormholes' = <<>>
    /\ limits' = <<0, 0>>
    /\ preserved_blackholes' = <<>>
    /\ preserved_wormholes' = <<>>
    /\ additional_blackholes' = <<>>
    /\ additional_wormholes' = <<>>
    /\ blackhole_banlist' = <<>>
    /\ wormhole_banlist' = <<>>
    /\ main_banlist' = <<>>
    /\ rollback' = FALSE
    /\ written' = {}
    /\ files0' = files
    /\ UNCHANGED <<files, nodes>>

NextTwice ==
    \/ LoadFirst
    \/ LoadSame
    \/ Assemble
    \/ AssembleCrash
    \/ Write
    \/ ExitKeepingInput

SpecTwice == Init /\ [][NextTwice]_vars

-----------------------------------------------------------------------------
(* Vocabulary of the properties *)

\* main() has returned True: the run is completed
Done == pc = "done"

\* main() has computed the final lists and is about to write
Assembled == pc = "assembled"

KnownBlackholeIds == Range(node_ids(known_blackholes))

KnownWormholeIds == Range(node_ids(known_wormholes))

PreservedIds == Range(preserved_blackholes) \cup Range(preserved_wormholes)

\* the node IDs listed in a file on disk, an absent file counting as empty
FileIds(content) ==
    {int(strip(content.lines[i])) :
        i \in {j \in 1..Len(content.lines) : IsInt(strip(content.lines[j]))}}

\* a sequence of integers in strictly ascending order
StrictlyAscending(s) == \A i \in 1..(Len(s) - 1) : s[i] < s[i + 1]

-----------------------------------------------------------------------------
(* Properties *)

\* C1 (as stated): the combined banlist written by a completed run has at most
\* a quarter as many entries as the node table has rows, rollback runs included.
C1_RatioNeverExceeded ==
    Done => 4 * Len(files[BANLIST].lines) <= Len(nodes)

\* C1 (amended): the combined banlist written by a completed run has at most a
\* quarter as many entries as the node table has rows unless the rollback
\* branch was taken, and then it lists exactly the known-malicious IDs of the
\* run and the preserved IDs.
C1_RatioOrRollback ==
    Done =>
        \/ ~rollback /\ 4 * Len(files[BANLIST].lines) <= Len(nodes)
        \/ /\ rollback
           /\ FileIds(files[BANLIST])
                = KnownBlackholeIds \cup KnownWormholeIds \cup PreservedIds

\* a completed run that rolled back and still wrote more than a quarter of the table
C1_Witness ==
    /\ Done /\ rollback
    /\ 4 * Len(files[BANLIST].lines) > Len(nodes)
    /\ PreservedIds # {}

\* C2: after a completed run every BLACKHOLE-labelled node is in the final
\* blackhole banlist and every WORMHOLE-labelled node in the final wormhole banlist.
C2_KnownAlwaysBanned ==
    Done => /\ KnownBlackholeIds \subseteq Range(blackhole_banlist)
            /\ KnownWormholeIds \subseteq Range(wormhole_banlist)

\* C3: the final blackhole banlist has at most max_blackhole entries and the
\* final wormhole banlist at most max_wormhole entries, on every path.
C3_ListsWithinLimits ==
    Done => /\ Len(blackhole_banlist) <= limits[1]
            /\ Len(wormhole_banlist) <= limits[2]

\* C4: when main() starts writing, the combined banlist is the ascending,
\* duplicate-free list of the IDs of the final blackhole and wormhole banlists.
C4_CombinedIsSortedUnion ==
    Assembled =>
        main_banlist = SortedSeq(Range(blackhole_banlist) \cup Range(wormhole_banlist))

\* the rollback path with preserved IDs of both categories in the lists
C4_Witness ==
    /\ Assembled /\ rollback
    /\ preserved_blackholes # <<>> /\ preserved_wormholes # <<>>
    /\ known_blackholes # <<>>
    /\ ~StrictlyAscending(blackhole_banlist)

\* C5: after a completed run the IDs of the combined file are the IDs of the
\* blackhole file united with the IDs of the wormhole file, as they are on disk.
C5_CombinedFileIsUnionOfFiles ==
    Done => FileIds(files[BANLIST])
                = FileIds(files[BLACKHOLE_BANLIST]) \cup FileIds(files[WORMHOLE_BANLIST])

\* C6: every file a completed run wrote lists its node IDs in strictly
\* ascending order, none repeated.
C6_WrittenFilesAscending ==
    Done => \A p \in written : StrictlyAscending(read_ids(files[p].lines))

\* C7: when the run is not about a category, every ID that was in the
\* category's file before the run is in it after the completed run.
C7_OtherCategoryKept ==
    Done =>
        /\ attack_type # "blackhole" =>
              FileIds(files0[BLACKHOLE_BANLIST]) \subseteq FileIds(files[BLACKHOLE_BANLIST])
        /\ attack_type # "wormhole" =>
              FileIds(files0[WORMHOLE_BANLIST]) \subseteq FileIds(files[WORMHOLE_BANLIST])

\* medians (doubled) and eligible sets the detectors are tried on
MedianSamples == {0, 40, 41, 400}

EligibleSamples(ns) == {<<>>, available_for_detection(ns), node_ids(ns)}

\* C8: each detector returns the empty sequence for every attack type other
\* than its own, whatever the table, median and eligible set; so a baseline or
\* mixed run adds no heuristic ID to a banlist.
C8_DetectorsGated ==
    /\ \A m \in MedianSamples : \A el \in EligibleSamples(nodes) :
          /\ \A at \in AttackTypes \ {"blackhole"} :
                detect_blackholes(nodes, m, el, at) = <<>>
          /\ \A at \in AttackTypes \ {"wormhole"} :
                detect_wormholes(nodes, m, el, at) = <<>>
    /\ (pc \in {"assembled", "done"} /\ attack_type \in {"baseline", "mixed"}) =>
          /\ additional_blackholes = <<>> /\ additional_wormholes = <<>>
          /\ Range(blackhole_banlist) \subseteq KnownBlackholeIds \cup Range(preserved_blackholes)
          /\ Range(wormhole_banlist) \subseteq KnownWormholeIds \cup Range(preserved_wormholes)

\* a baseline run with enough active nodes in which a node passes the
\* blackhole test and a node passes the wormhole test
C8_Witness ==
    /\ Done /\ attack_type = "baseline" /\ enough_active(nodes)
    /\ detect_blackholes(nodes, 40, available_for_detection(nodes), "blackhole") # <<>>
    /\ detect_wormholes(nodes, 40, available_for_detection(nodes), "wormhole") # <<>>

\* C9: each limit is at least the number of known nodes of its category, and
\* the limit of the category a single-attack run is not about equals the known
\* count.
C9_LimitsCoverKnown ==
    pc \in {"assembled", "done"} =>
        /\ limits[1] >= Len(known_blackholes)
        /\ limits[2] >= Len(known_wormholes)
        /\ attack_type = "blackhole" => limits[2] = Len(known_wormholes)
        /\ attack_type = "wormhole" => limits[1] = Len(known_blackholes)

\* C10: a run whose input is missing or has an unparsable row returns failure
\* and leaves the three banlist files as they were.
C10_LoadFailureTouchesNothing ==
    pc \in {"no_input", "bad_row"} =>
        /\ success = FALSE
        /\ written = {}
        /\ files = files0

\* a failing run that follows a completed run which wrote all three files
C10_Witness ==
    /\ pc = "bad_row" /\ runs = 1
    /\ \A p \in Paths : files[p].exists /\ files[p].lines # <<>>

HeuristicIds(banlist, known, preserved) ==
    Range(banlist) \ (Range(node_ids(known)) \cup Range(preserved))

\* C12: each final category banlist holds at most one ID contributed by the
\* heuristic detector, however many nodes pass the detector's test.
C12_AtMostOneHeuristic ==
    pc \in {"assembled", "done"} =>
        /\ Cardinality(HeuristicIds(blackhole_banlist, known_blackholes,
                                    preserved_blackholes)) <= 1
        /\ Cardinality(HeuristicIds(wormhole_banlist, known_wormholes,
                                    preserved_wormholes)) <= 1

\* a completed blackhole run in which two nodes pass the blackhole test and
\* one of them is in the final list
C12_Witness ==
    /\ Done /\ ~rollback
    /\ Len(additional_blackholes) >= 2
    /\ Cardinality(HeuristicIds(blackhole_banlist, known_blackholes,
                                preserved_blackholes)) = 1

\* the category lists and the combined list as assembled at lines 192-248,
\* before the safety check
AssembledBlackholes ==
    apply_limit(initial_banlist(preserved_blackholes, known_blackholes)
                    \o additional_blackholes, limits[1])

AssembledWormholes ==
    apply_limit(initial_banlist(preserved_wormholes, known_wormholes)
                    \o additional_wormholes, limits[2])

AssembledCombined == combine(AssembledBlackholes, AssembledWormholes)

\* C13: when the assembled combined list is more than a quarter of the node
\* table, the final lists consist of the known-malicious IDs of the run and
\* the preserved IDs only: no ID that only the heuristic contributed remains
\* in the blackhole, wormhole or combined list.
C13_RollbackDropsHeuristics ==
    (pc \in {"assembled", "done"} /\ 4 * Len(AssembledCombined) > Len(nodes)) =>
        /\ Range(blackhole_banlist) = KnownBlackholeIds \cup Range(preserved_blackholes)
        /\ Range(wormhole_banlist) = KnownWormholeIds \cup Range(preserved_wormholes)
        /\ Range(main_banlist) = KnownBlackholeIds \cup KnownWormholeIds \cup PreservedIds
        /\ \A id \in Range(additional_blackholes) \cup Range(additional_wormholes) :
              id \notin KnownBlackholeIds \cup KnownWormholeIds \cup PreservedIds =>
                 id \notin Range(blackhole_banlist) \cup Range(wormhole_banlist)
                            \cup Range(main_banlist)

\* a completed run whose assembled lists held a heuristic ID, which the
\* rollback removed, next to a preserved ID, which it kept
C13_Witness ==
    /\ Done /\ rollback
    /\ PreservedIds # {}
    /\ \E id \in Range(additional_blackholes) :
          /\ id \in Range(AssembledCombined)
          /\ id \notin PreservedIds
          /\ id \notin Range(main_banlist)

\* C14: when at most 15 nodes have rx_packets > 15 or tx_packets > 15, no
\* detector contributes: the final lists hold known-malicious and preserved
\* IDs only.
C14_FewActiveNoDetection ==
    (pc \in {"assembled", "done"}
        /\ Cardinality({i \in 1..Len(nodes) :
                nodes[i].rxPackets > 15 \/ nodes[i].txPackets > 15}) <= 15) =>
        /\ additional_blackholes = <<>> /\ additional_wormholes = <<>>
        /\ HeuristicIds(blackhole_banlist, known_blackholes, preserved_blackholes) = {}
        /\ HeuristicIds(wormhole_banlist, known_wormholes, preserved_wormholes) = {}
        /\ Range(main_banlist) \subseteq
              KnownBlackholeIds \cup KnownWormholeIds \cup PreservedIds

\* a completed blackhole run on a table of more than 15 rows with exactly 15
\* active nodes, one of which would pass the blackhole test
C14_Witness ==
    /\ Done /\ attack_type = "blackhole" /\ ~rollback
    /\ Len(nodes) > 15
    /\ Len(active_nodes(nodes)) = 15
    /\ detect_blackholes(nodes, median2(rx_packets(active_nodes(nodes))),
                         available_for_detection(nodes), "blackhole") # <<>>

\* the preserved, known and heuristic-detected IDs of a category
UnionBlackholes ==
    Range(preserved_blackholes) \cup KnownBlackholeIds \cup Range(additional_blackholes)

UnionWormholes ==
    Range(preserved_wormholes) \cup KnownWormholeIds \cup Range(additional_wormholes)

\* C15 (as stated): when the union of a category has more entries than the
\* category's limit N, the final list is the N lowest IDs of the union, ascending.
C15_LowestIdsKept ==
    pc \in {"assembled", "done"} =>
        /\ Cardinality(UnionBlackholes) > limits[1] =>
              blackhole_banlist = Prefix(SortedSeq(UnionBlackholes), limits[1])
        /\ Cardinality(UnionWormholes) > limits[2] =>
              wormhole_banlist = Prefix(SortedSeq(UnionWormholes), limits[2])

\* the first n entries of the preserved and known IDs in ascending order
\* followed by the detected IDs in scan order, as an ascending list
FirstInserted(preserved, known, additional, n) ==
    SortedSeq(Range(Prefix(SortedSeq(Range(preserved) \cup Range(node_ids(known)))
                               \o additional, n)))

\* C15 (amended): when the union of a category has more entries than the limit
\* N and no rollback is taken, the final list is the ascending list of the
\* first N entries of the preserved and known IDs (ascending) followed by the
\* detected IDs in scan order, which is the N lowest IDs of the union when
\* nothing was detected; when the rollback is taken the final list is the
\* known IDs followed by the preserved IDs.
C15_FirstInsertedKept ==
    pc \in {"assembled", "done"} =>
        /\ Cardinality(UnionBlackholes) > limits[1] =>
              /\ ~rollback => blackhole_banlist
                    = FirstInserted(preserved_blackholes, known_blackholes,
                                    additional_blackholes, limits[1])
              /\ (~rollback /\ additional_blackholes = <<>>) => blackhole_banlist
                    = Prefix(SortedSeq(UnionBlackholes), limits[1])
              /\ rollback => blackhole_banlist
                    = node_ids(known_blackholes) \o preserved_blackholes
        /\ Cardinality(UnionWormholes) > limits[2] =>
              /\ ~rollback => wormhole_banlist
                    = FirstInserted(preserved_wormholes, known_wormholes,
                                    additional_wormholes, limits[2])
              /\ (~rollback /\ additional_wormholes = <<>>) => wormhole_banlist
                    = Prefix(SortedSeq(UnionWormholes), limits[2])
              /\ rollback => wormhole_banlist
                    = node_ids(known_wormholes) \o preserved_wormholes

\* a completed run without rollback whose blackhole list was cut and is not
\* the lowest IDs of the union, because a detected ID is lower than a known one
C15_Witness ==
    /\ Done /\ ~rollback
    /\ Cardinality(UnionBlackholes) > limits[1]
    /\ additional_blackholes # <<>>
    /\ blackhole_banlist # Prefix(SortedSeq(UnionBlackholes), limits[1])

\* an existing file with a non-blank line that is no integer
Corrupt(content) == content.exists /\ ParseFails(content.lines)

\* what the preserver yields for an intact or missing file of a category
IntactPreserved(at, category, content) ==
    IF at # category /\ content.exists THEN read_ids(content.lines) ELSE <<>>

\* C16: when a category file has a line that is no integer, the preserved
\* list of that category is empty, the preserved list of the other category is
\* what its own file gives, and the run goes on to assemble and write: it
\* returns True unless a write fails.
C16_CorruptFileRecovered ==
    [][/\ (pc = "loaded" /\ Len(nodes) > 0) =>
            /\ pc' = "assembled"
            /\ Corrupt(files[BLACKHOLE_BANLIST]) => preserved_blackholes' = <<>>
            /\ Corrupt(files[WORMHOLE_BANLIST]) => preserved_wormholes' = <<>>
            /\ (Corrupt(files[BLACKHOLE_BANLIST]) /\ ~Corrupt(files[WORMHOLE_BANLIST])) =>
                  preserved_wormholes'
                    = IntactPreserved(attack_type', "wormhole", files[WORMHOLE_BANLIST])
            /\ (Corrupt(files[WORMHOLE_BANLIST]) /\ ~Corrupt(files[BLACKHOLE_BANLIST])) =>
                  preserved_blackholes'
                    = IntactPreserved(attack_type', "blackhole", files[BLACKHOLE_BANLIST])
       /\ pc = "assembled" =>
            /\ pc' \in {"done", "write_failed"}
            /\ pc' = "done" => success' = TRUE
      ]_vars

\* a completed mixed run that found the blackhole file corrupt and preserved
\* the IDs of the wormhole file
C16_Witness ==
    /\ Done /\ success /\ attack_type = "mixed"
    /\ Corrupt(files0[BLACKHOLE_BANLIST])
    /\ IsInt(strip(files0[BLACKHOLE_BANLIST].lines[1]))
    /\ preserved_blackholes = <<>>
    /\ preserved_wormholes # <<>>

====
